---- MODULE Spec2Model ----
(***************************************************************************)
(* Model of openshift-image-exporter (src/app.py).                         *)
(*                                                                         *)
(* Conventions                                                             *)
(*  - A Python str is a sequence of tokens (each token a TLA+ string that  *)
(*    the program never looks inside).  "@", ":", "-", "/" and the scheme  *)
(*    prefixes are tokens of their own, so split('@'), replace(':', '-')   *)
(*    and the regular expressions work on the sequence as the code works   *)
(*    on the characters.                                                   *)
(*  - An optional value (None or a value v) is <<>> or <<v>>.              *)
(*  - The dict self.images has str keys (digests) and tuple keys (layer    *)
(*    sequences); a key is <<"str", s>> or <<"tuple", t>>, which can never *)
(*    be equal, as a Python str never equals a tuple.                      *)
(*  - dyn_client.resources.get(...) is a lookup in the client's discovery  *)
(*    cache and does not fail; the calls that talk to the API server       *)
(*    (.get(), .replace(), .create()) may raise.                           *)
(***************************************************************************)
EXTENDS Integers, Sequences, FiniteSets, TLC

VARIABLES
    cluster,                \* what the API server answers: images, builds, pods, routes, owners
    imagestream,            \* the ImageStream openshift-image-exporter-info on the server
    pc,                     \* position of the main thread (lines 307-312 and inside update/run)
    cycle,                  \* number of update() calls started so far
    images,                 \* CustomCollectorUpdater.images
    built_images,           \* CustomCollectorUpdater.built_images
    missing_images,         \* CustomCollectorUpdater.missing_images
    fam,                    \* run()'s locals image_metric_family, route_metric_family, env_metric_family
    collector,              \* CustomCollector's three published attributes
    readerPc,               \* position of a scrape inside the generator collect()
    yielded,                \* what the scrape's collect() has yielded so far
    result,                 \* how the last call ended: update() returned or raised; or the
                            \* value a direct call of find_base_image or get_owner returned
    snapAtStart             \* history: collector as it was when the current update() started

vars == <<cluster, imagestream, pc, cycle, images, built_images, missing_images,
          fam, collector, readerPc, yielded, result, snapAtStart>>

----------------------------------------------------------------------------
(* Optional values and Python truthiness *)

None == <<>>

Some(v) == <<v>>

\* the value of an optional known to be present
The(o) == o[1]

\* truthiness of an optional str: not None and not ''
TruthyStr(o) == o # <<>> /\ o[1] # <<>>

----------------------------------------------------------------------------
(* str operations on token sequences *)

RECURSIVE Split(_, _)
\* s.split(sep): the pieces of s between the occurrences of the token sep
Split(s, sep) ==
    IF \A i \in 1..Len(s) : s[i] # sep
    THEN <<s>>
    ELSE LET i == CHOOSE k \in 1..Len(s) :
                      s[k] = sep /\ \A j \in 1..(k - 1) : s[j] # sep
         IN  <<SubSeq(s, 1, i - 1)>> \o Split(SubSeq(s, i + 1, Len(s)), sep)

\* s.replace(old, new) for single-character old and new
Replace(s, old, new) == [i \in 1..Len(s) |-> IF s[i] = old THEN new ELSE s[i]]

\* sep in s
Contains(s, sep) == \E i \in 1..Len(s) : s[i] = sep

DockerPullable == "docker-pullable://"

\* IMAGE_ID_RE.match(s) for r'docker-pullable://(([^@]+)@(.+))': None, or the
\* groups 1, 2, 3.  match() anchors at the start only; [^@]+ is one or more
\* tokens other than "@", so group 2 ends at the first "@" after the prefix, and
\* .+ needs at least one token after it.
ImageIdMatch(s) ==
    IF /\ Len(s) >= 4
       /\ s[1] = DockerPullable
       /\ \E k \in 3..(Len(s) - 1) : s[k] = "@" /\ \A j \in 2..(k - 1) : s[j] # "@"
    THEN LET k == CHOOSE k \in 3..(Len(s) - 1) :
                      s[k] = "@" /\ \A j \in 2..(k - 1) : s[j] # "@"
         IN  Some([g1 |-> SubSeq(s, 2, Len(s)),
                   g2 |-> SubSeq(s, 2, k - 1),
                   g3 |-> SubSeq(s, k + 1, Len(s))])
    ELSE None

----------------------------------------------------------------------------
(* dict operations *)

EmptyDict == <<>>

StrKey(s) == <<"str", s>>

TupleKey(t) == <<"tuple", t>>

\* d[k] = v
DictSet(d, k, v) == [x \in (DOMAIN d) \cup {k} |-> IF x = k THEN v ELSE d[x]]

\* d.get(k)
DictGet(d, k) == IF k \in DOMAIN d THEN Some(d[k]) ELSE None

----------------------------------------------------------------------------
(* Bounds of the model and the values the API server may answer with *)

\* at most this many Image objects in the catalog the server lists
MaxImages == 3

\* at most this many Build objects
MaxBuilds == 1

\* update() is called at most this many times
MaxCycles == 2

DigestNames == <<"x", "y", "z", "w", "v">>

\* the digest of the i-th image of the catalog
Digest(i) == <<"sha256", ":", DigestNames[i]>>

\* a digest no catalog holds
UnknownDigest == <<"sha256", ":", "u">>

\* a pull reference repo@digest
Ref(repo, digest) == <<repo, "@">> \o digest

\* dockerImageLayers of an Image: None, or a list of layer names
LayerLists ==
    { None, Some(<<>>), Some(<<"A">>), Some(<<"A", "B">>), Some(<<"A", "B", "C">>),
      Some(<<"B">>), Some(<<"A", "C">>) }

CreatedStrings == <<"2020-01-01T00:00:00Z", "2020-01-02T00:00:00Z", "2020-01-03T00:00:00Z",
                    "2020-01-04T00:00:00Z", "2020-01-05T00:00:00Z">>

\* the i-th Image object of a catalog, with the given dockerImageLayers
ImageObject(i, ls) ==
    [name |-> Digest(i),
     dockerImageReference |-> Ref("registry/app", Digest(i)),
     created |-> CreatedStrings[i],
     dockerImageLayers |-> ls]

\* the catalogs v1_image.get().items may be: Image objects with distinct names
Catalogs ==
    UNION { { [i \in 1..n |-> ImageObject(i, f[i])] : f \in [1..n -> LayerLists] }
            : n \in 0..MaxImages }

\* a Build object: the two strategy shapes' from.name and status.output.to.imageDigest
BuildObject(df, sf, out) == [dockerFrom |-> df, sourceFrom |-> sf, imageDigest |-> out]

BuildObjects ==
    { BuildObject(Some(Ref("registry/base", Digest(2))), None, Some(Digest(1))),
      BuildObject(None, Some(Ref("registry/base", Digest(3))), Some(Digest(1))),
      BuildObject(Some(Ref("registry/base", UnknownDigest)), None, Some(Digest(1))),
      BuildObject(Some(<<"registry/base", ":", "latest">>), None, Some(Digest(1))),
      BuildObject(Some(Ref("registry/base", Digest(1))), None, None),
      BuildObject(None, Some(Ref("registry/base", Digest(1))), Some(Digest(2))) }

BuildLists ==
    UNION { [1..n -> BuildObjects] : n \in 0..MaxBuilds }

----------------------------------------------------------------------------
(* CustomCollectorUpdater: the two indices and the base-image resolver *)

\* the tuple of layer names fetch_images computes for an Image (lines 146-149)
LayersOf(image) ==
    IF image.dockerImageLayers # None /\ The(image.dockerImageLayers) # <<>>
    THEN The(image.dockerImageLayers)
    ELSE <<>>

\* the record fetch_images stores for an Image (line 151)
RecordOf(image) ==
    [name |-> image.dockerImageReference, created |-> image.created, layers |-> LayersOf(image)]

\* one iteration of the loop of fetch_images, a layer key once stored never replaced
IndexImageFirstWins(d, image) ==
    LET d1 == DictSet(d, StrKey(image.name), RecordOf(image))
    IN  IF LayersOf(image) # <<>> /\ TupleKey(LayersOf(image)) \notin DOMAIN d1
        THEN DictSet(d1, TupleKey(LayersOf(image)), d1[StrKey(image.name)])
        ELSE d1

\* one iteration of the loop of fetch_images (lines 145-153)
IndexImage(d, image) ==
    LET d1 == DictSet(d, StrKey(image.name), RecordOf(image))
    IN  IF LayersOf(image) # <<>>
        THEN DictSet(d1, TupleKey(LayersOf(image)), d1[StrKey(image.name)])
        ELSE d1

RECURSIVE IndexImages(_, _)
\* the loop of fetch_images over the listed items, starting from d
IndexImages(d, items) ==
    IF items = <<>> THEN d ELSE IndexImages(IndexImage(d, Head(items)), Tail(items))

\* the base image a Build declares (line 134): dockerStrategy's, or else sourceStrategy's
BuildBase(build) ==
    IF TruthyStr(build.dockerFrom) THEN build.dockerFrom ELSE build.sourceFrom

\* one iteration of the loop of fetch_built_images (lines 134-139)
IndexBuild(d, build) ==
    LET base_image == BuildBase(build)
        output_image == build.imageDigest
    IN  IF TruthyStr(base_image) /\ TruthyStr(output_image) /\ Contains(The(base_image), "@")
        THEN DictSet(d, The(output_image), The(base_image))
        ELSE d

RECURSIVE IndexBuilds(_, _)
\* the loop of fetch_built_images
IndexBuilds(d, items) ==
    IF items = <<>> THEN d ELSE IndexBuilds(IndexBuild(d, Head(items)), Tail(items))

RECURSIVE PrefixProbeShortestFirst(_, _, _)
\* a probe that grows the prefix from one layer up and returns the first hit
PrefixProbeShortestFirst(imgs, layers, n) ==
    IF n >= Len(layers)
    THEN None
    ELSE IF TupleKey(SubSeq(layers, 1, n)) \in DOMAIN imgs
         THEN Some(imgs[TupleKey(SubSeq(layers, 1, n))])
         ELSE PrefixProbeShortestFirst(imgs, layers, n + 1)

\* the while loop with the shortest prefix probed first
PrefixProbeFromShortest(imgs, layers) == PrefixProbeShortestFirst(imgs, layers, 1)

RECURSIVE PrefixProbeLoop(_, _)
\* the while loop of find_base_image (lines 79-83)
PrefixProbeLoop(imgs, layers) ==
    IF Len(layers) > 0
    THEN LET shorter == SubSeq(layers, 1, Len(layers) - 1)
             base_image == DictGet(imgs, TupleKey(shorter))
         IN  IF base_image # None THEN base_image ELSE PrefixProbeLoop(imgs, shorter)
    ELSE None

\* lines 76-85
PrefixProbe(imgs, layers) == PrefixProbeLoop(imgs, layers)

\* find_base_image without the provenance lookup of lines 68-74
FindBaseImageNoProvenance(imgs, built, missing, digest) ==
    IF StrKey(digest) \notin DOMAIN imgs
    THEN [raised |-> TRUE, ret |-> None, missing |-> missing]
    ELSE [raised |-> FALSE, ret |-> PrefixProbe(imgs, imgs[StrKey(digest)].layers),
          missing |-> missing]

\* find_base_image that forgets to record a declared base the catalog lacks
FindBaseImageNoMissing(imgs, built, missing, digest) ==
    LET base_image == DictGet(built, digest)
        hit == /\ TruthyStr(base_image)
               /\ StrKey(Split(The(base_image), "@")[2]) \in DOMAIN imgs
    IN  IF hit
        THEN [raised |-> FALSE, ret |-> Some(imgs[StrKey(Split(The(base_image), "@")[2])]),
              missing |-> missing]
        ELSE FindBaseImageNoProvenance(imgs, built, missing, digest)

\* find_base_image(digest) (lines 62-85): the value returned, missing_images after
\* the call, and whether line 76 raised KeyError
FindBaseImage(imgs, built, missing, digest) ==
    LET base_image == DictGet(built, digest)
        declared == TruthyStr(base_image)
        base_digest == Split(The(base_image), "@")[2]
        missing1 == IF declared /\ StrKey(base_digest) \notin DOMAIN imgs
                    THEN missing \cup {The(base_image)}
                    ELSE missing
    IN  IF declared /\ StrKey(base_digest) \in DOMAIN imgs
        THEN [raised |-> FALSE, ret |-> Some(imgs[StrKey(base_digest)]), missing |-> missing]
        ELSE IF StrKey(digest) \notin DOMAIN imgs
             THEN [raised |-> TRUE, ret |-> None, missing |-> missing1]
             ELSE [raised |-> FALSE,
                   ret |-> PrefixProbe(imgs, imgs[StrKey(digest)].layers),
                   missing |-> missing1]

----------------------------------------------------------------------------
(* Owner resolution *)

ReplicaKinds == {"ReplicationController", "ReplicaSet"}

OwnerRef(kind, name) == [apiVersion |-> "v1", kind |-> kind, name |-> name]

\* what owner_client.get(namespace, name) does for the owner called name:
\* it raises, or returns an object with these metadata.ownerReferences
OwnerAnswer(raises, refs) == [raises |-> raises, ownerReferences |-> refs]

\* get_owner that follows the owner's owner for every kind
GetOwnerAlwaysHop(pod, owners) ==
    IF pod.ownerReferences = <<>>
    THEN None
    ELSE LET name == pod.ownerReferences[1].name
             answer == owners[name]
         IN  IF ~answer.raises /\ answer.ownerReferences # <<>>
             THEN Some(answer.ownerReferences[1].name)
             ELSE Some(name)

\* get_owner(obj) (lines 155-176): None or the owner's name
GetOwner(pod, owners) ==
    IF pod.ownerReferences = <<>>
    THEN None
    ELSE LET kind == pod.ownerReferences[1].kind
             name == pod.ownerReferences[1].name
             answer == owners[name]
         IN  IF kind \in ReplicaKinds
             THEN IF ~answer.raises /\ answer.ownerReferences # <<>>
                  THEN Some(answer.ownerReferences[1].name)
                  ELSE Some(name)
             ELSE Some(name)

----------------------------------------------------------------------------
(* run(): pods, containers and container statuses (lines 184-271) *)

Unknown == <<"<unknown>">>

\* dateutil.parser.parse(created).timestamp(): later strings give larger numbers,
\* and none gives 0, the value of the placeholder rows
ParseTimestamp(created) ==
    CHOOSE t \in 1..Len(CreatedStrings) : CreatedStrings[t] = created

\* a metric family object: its name, the cycle whose run() created it (its
\* identity), and the samples add_metric has appended
NewFamily(name, c) == [name |-> name, cycle |-> c, samples |-> <<>>]

AddMetric(family, labels, value) ==
    [family EXCEPT !.samples = Append(@, [labels |-> labels, value |-> value])]

\* the text lines 213-223 put in container_env for one variable, or None
RenderEnvVar(var) ==
    IF TruthyStr(var.value)
    THEN var.value
    ELSE IF var.valueFrom = None
    THEN None
    ELSE LET vf == The(var.valueFrom)
         IN  CASE vf.kind = "configMapKeyRef" ->
                    Some(<<"<set to the key '">> \o vf.key \o <<"' in configmap '">>
                         \o vf.name \o <<"'>">>)
               [] vf.kind = "fieldRef" ->
                    Some(<<"<set to the pod field '">> \o vf.key \o <<"'>">>)
               [] vf.kind = "resourceFieldRef" ->
                    Some(<<"<set to container resource '">> \o vf.key \o <<"'>">>)
               [] vf.kind = "secretKeyRef" ->
                    Some(<<"<set to the key '">> \o vf.key \o <<"' in secret '">>
                         \o vf.name \o <<"'>">>)
               [] OTHER -> None

RECURSIVE ContainerEnv(_, _)
\* the loop of lines 212-223 over container.env
ContainerEnv(d, env) ==
    IF env = <<>>
    THEN d
    ELSE LET var == Head(env)
             text == RenderEnvVar(var)
         IN  ContainerEnv(IF text = None THEN d
                          ELSE DictSet(d, <<"env_">> \o var.name, The(text)),
                          Tail(env))

\* f"{owner}/{container_name}" or ""
OwnerContainer(owner, container_name) ==
    IF TruthyStr(owner) THEN The(owner) \o <<"/">> \o container_name ELSE <<>>

RECURSIVE EnvRows(_, _, _, _)
\* the loop of lines 201-224 over the pod's containers
EnvRows(family, pod, owner, containers) ==
    IF containers = <<>>
    THEN family
    ELSE LET container == Head(containers)
         IN  IF container.env = <<>>
             THEN EnvRows(family, pod, owner, Tail(containers))
             ELSE EnvRows(AddMetric(family,
                                    <<pod.namespace,
                                      pod.name \o <<"/">> \o container.name,
                                      OwnerContainer(owner, container.name)>>,
                                    ContainerEnv(EmptyDict, container.env)),
                          pod, owner, Tail(containers))

\* lines 227-271 for one container status; st holds image_metric_family,
\* missing_images, container_count and whether find_base_image raised
StatusStepBody(st, pod, owner, cs) ==
    IF cs.imageID = <<>>
    THEN st
    ELSE
    LET pod_container == pod.name \o <<"/">> \o cs.name
        owner_container == OwnerContainer(owner, cs.name)
        match == ImageIdMatch(cs.imageID)
        image_name == IF match # None THEN Some(The(match).g1) ELSE None
        image_repo == IF match # None THEN Some(The(match).g2) ELSE None
        digest == IF match # None THEN Some(The(match).g3) ELSE None
        image_metadata == IF match # None THEN DictGet(st.images, StrKey(The(digest))) ELSE None
        found == image_metadata # None
        fb == FindBaseImage(st.images, st.built, st.missing, The(digest))
        base_image == IF found THEN fb.ret ELSE None
        image_creation_timestamp ==
            IF found THEN ParseTimestamp(The(image_metadata).created) ELSE 0
        missing1 == IF found THEN fb.missing
                    ELSE IF TruthyStr(image_name) THEN st.missing \cup {The(image_name)}
                    ELSE st.missing
        base_image_name == IF base_image # None THEN Some(The(base_image).name) ELSE None
        base_image_repo ==
            IF base_image # None THEN Some(Split(The(base_image).name, "@")[1]) ELSE None
        base_image_creation_timestamp ==
            IF base_image # None THEN ParseTimestamp(The(base_image).created) ELSE 0
        row1 == AddMetric(st.family,
                          <<pod.namespace, pod_container, <<"container_image">>,
                            IF TruthyStr(image_name) THEN The(image_name) ELSE Unknown,
                            owner_container,
                            IF TruthyStr(image_repo) THEN The(image_repo) ELSE Unknown>>,
                          image_creation_timestamp)
        row2 == AddMetric(row1,
                          <<pod.namespace, pod_container, <<"parent_image">>,
                            IF TruthyStr(base_image_name) THEN The(base_image_name) ELSE Unknown,
                            owner_container,
                            IF TruthyStr(base_image_repo) THEN The(base_image_repo) ELSE Unknown>>,
                          base_image_creation_timestamp)
    IN  IF found /\ fb.raised
        THEN [st EXCEPT !.raised = TRUE]
        ELSE [st EXCEPT !.family = row2, !.missing = missing1,
                        !.container_count = @ + 1]

\* the loop body that also skips a status whose imageID does not match IMAGE_ID_RE
StatusStepSkipUnparsed(st, pod, owner, cs) ==
    IF ImageIdMatch(cs.imageID) = None THEN st ELSE StatusStepBody(st, pod, owner, cs)

\* the body of the loop of line 226
StatusStep(st, pod, owner, cs) == StatusStepBody(st, pod, owner, cs)

RECURSIVE StatusRows(_, _, _, _)
\* the loop of lines 226-271 over the pod's container statuses
StatusRows(st, pod, owner, statuses) ==
    IF statuses = <<>> \/ st.raised
    THEN st
    ELSE StatusRows(StatusStep(st, pod, owner, Head(statuses)), pod, owner, Tail(statuses))

\* whether the loop of line 191 processes the pod (lines 196-197)
PodProcessed(pod) == pod.phase = "Running" /\ ~TruthyStr(pod.deletionTimestamp)

RECURSIVE PodRows(_, _, _)
\* the loop of lines 191-271 over the listed pods; st also holds env_metric_family
PodRows(st, pods, owners) ==
    IF pods = <<>> \/ st.raised
    THEN st
    ELSE LET pod == Head(pods)
         IN  IF ~PodProcessed(pod)
             THEN PodRows(st, Tail(pods), owners)
             ELSE LET owner == GetOwner(pod, owners)
                      st1 == [st EXCEPT !.env = EnvRows(@, pod, owner, pod.containers)]
                  IN  PodRows(StatusRows(st1, pod, owner, pod.containerStatuses),
                              Tail(pods), owners)

\* lines 184-271 of run() in cycle c, given the two indices and the listed pods
Correlate(imgs, built, pods, owners, c) ==
    PodRows([images |-> imgs, built |-> built, missing |-> {},
             family |-> NewFamily("container_image_creation_timestamp", c),
             env |-> NewFamily("openshift_pod_env", c),
             container_count |-> 0, raised |-> FALSE],
            pods, owners)

----------------------------------------------------------------------------
(* update_missing_imagestream (lines 87-128) *)

\* the tag appended for one missing image (lines 106-115)
TagFor(image) ==
    [name |-> Replace(Split(image, "@")[2], ":", "-"),
     from |-> [kind |-> "DockerImage", name |-> image],
     referencePolicy |-> [type |-> "Source"]]

\* the orders in which "for image in self.missing_images" may visit a set
Orders(S) ==
    { o \in [1..Cardinality(S) -> S] : \A i, j \in 1..Cardinality(S) : o[i] = o[j] => i = j }

\* the body built by lines 89-115: the record read (or the fresh one of lines
\* 93-103) with one tag appended per missing image, visited in the given order
MergedBody(stream, order) ==
    LET image_stream == IF stream = None THEN [tags |-> <<>>, status |-> FALSE]
                        ELSE The(stream)
    IN  [image_stream EXCEPT !.tags = @ \o [i \in 1..Len(order) |-> TagFor(order[i])]]


----------------------------------------------------------------------------
(* run(): routes (lines 277-292) *)

HaproxyPrefix == "haproxy.router.openshift.io/"

\* the tokens that stand for characters outside [a-zA-Z_]
NonLabelTokens == {"-", ".", "/", ":", "@", "0", "1"}

\* re.sub(r'[^a-zA-Z_]', '_', s)
LabelSafe(s) == [i \in 1..Len(s) |-> IF s[i] \in NonLabelTokens THEN "_" ELSE s[i]]

RECURSIVE RouteAnnotations(_, _)
\* the loop of lines 287-291 over the items of the annotations
RouteAnnotations(d, items) ==
    IF items = <<>>
    THEN d
    ELSE LET key == Head(items)[1]
             value == Head(items)[2]
             matches == Len(key) >= 2 /\ key[1] = HaproxyPrefix
         IN  RouteAnnotations(IF matches /\ value # <<>>
                              THEN DictSet(d, <<"haproxy_">> \o LabelSafe(Tail(key)), value)
                              ELSE d,
                              Tail(items))

\* annotations.get('haproxy.router.openshift.io/ip_whitelist', "")
IpWhitelist(items) ==
    IF \E i \in 1..Len(items) : items[i][1] = <<HaproxyPrefix, "ip_whitelist">>
    THEN items[CHOOSE i \in 1..Len(items) : items[i][1] = <<HaproxyPrefix, "ip_whitelist">>][2]
    ELSE <<>>

RECURSIVE RouteRows(_, _)
\* the loop of lines 278-292 over the listed routes
RouteRows(family, routes) ==
    IF routes = <<>>
    THEN family
    ELSE LET route == Head(routes)
             tls_termination == IF route.tls = None THEN <<>> ELSE The(route.tls).termination
             insecure == IF route.tls = None THEN <<>>
                         ELSE The(route.tls).insecureEdgeTerminationPolicy
         IN  RouteRows(AddMetric(family,
                                 <<route.namespace, route.name, route.host, route.service,
                                   tls_termination, insecure, IpWhitelist(route.annotations)>>,
                                 RouteAnnotations(EmptyDict, route.annotations)),
                       Tail(routes))

----------------------------------------------------------------------------
(* The state after construction (lines 37-39, 304-306) *)

NoFamilies == [image |-> None, route |-> None, env |-> None]

Cluster(imgs, builds, pods, routes, owners) ==
    [images |-> imgs, builds |-> builds, pods |-> pods, routes |-> routes, owners |-> owners]

\* the state with the main thread at position p of cycle c
InitWith(c, stream, p, n, missing) ==
    /\ cluster = c
    /\ imagestream = stream
    /\ pc = p
    /\ cycle = n
    /\ images = EmptyDict
    /\ built_images = EmptyDict
    /\ missing_images = missing
    /\ fam = NoFamilies
    /\ collector = NoFamilies
    /\ readerPc = "idle"
    /\ yielded = <<>>
    /\ result = None
    /\ snapAtStart = NoFamilies

----------------------------------------------------------------------------
(* The main thread: the loop of lines 307-312, update() and run() *)

\* line 309 and line 50: the loop calls update(), which makes a new updater
StartUpdate ==
    /\ pc = "loop"
    /\ cycle < MaxCycles
    /\ pc' = "fetch_images"
    /\ cycle' = cycle + 1
    /\ snapAtStart' = collector
    /\ images' = EmptyDict
    /\ built_images' = EmptyDict
    /\ missing_images' = {}
    /\ fam' = NoFamilies
    /\ UNCHANGED <<cluster, imagestream, collector, readerPc, yielded, result>>

\* fetch_images (lines 141-153); v1_image.get() may raise
FetchImages ==
    /\ pc = "fetch_images"
    /\ \/ /\ images' = IndexImages(EmptyDict, cluster.images)
          /\ pc' = "fetch_built_images"
       \/ /\ pc' = "except"
          /\ UNCHANGED images
    /\ UNCHANGED <<cluster, imagestream, cycle, built_images, missing_images, fam,
                   collector, readerPc, yielded, result, snapAtStart>>

\* fetch_built_images (lines 130-139); v1_build.get() may raise
FetchBuiltImages ==
    /\ pc = "fetch_built_images"
    /\ \/ /\ built_images' = IndexBuilds(EmptyDict, cluster.builds)
          /\ pc' = "correlate"
       \/ /\ pc' = "except"
          /\ UNCHANGED built_images
    /\ UNCHANGED <<cluster, imagestream, cycle, images, missing_images, fam,
                   collector, readerPc, yielded, result, snapAtStart>>

\* the three families lines 184-186 create
FreshFamilies(c) ==
    [image |-> Some(NewFamily("container_image_creation_timestamp", c)),
     route |-> Some(NewFamily("openshift_route", c)),
     env |-> Some(NewFamily("openshift_pod_env", c))]

\* lines 184-271 of run(); v1_pod.get() may raise
CorrelatePods ==
    /\ pc = "correlate"
    /\ \/ LET st == Correlate(images, built_images, cluster.pods, cluster.owners, cycle)
          IN  /\ fam' = [FreshFamilies(cycle) EXCEPT !.image = Some(st.family),
                                                     !.env = Some(st.env)]
              /\ missing_images' = st.missing
              /\ pc' = "reconcile"
       \/ /\ fam' = FreshFamilies(cycle)
          /\ missing_images' = {}
          /\ pc' = "except"
    /\ UNCHANGED <<cluster, imagestream, cycle, images, built_images,
                   collector, readerPc, yielded, result, snapAtStart>>

\* the record as the write of lines 125-128 leaves it: the body sent, which the
\* server completes with a status
Written(body) == Some([body EXCEPT !.status = TRUE])

\* update_missing_imagestream (line 273, lines 87-128); the read may raise an
\* error other than NotFoundError, and replace() or create() may raise
UpdateMissingImagestream ==
    /\ pc = "reconcile"
    /\ \/ /\ pc' = "except"
          /\ UNCHANGED imagestream
       \/ \E order \in Orders(missing_images) :
             /\ imagestream' = Written(MergedBody(imagestream, order))
             /\ pc' = "routes"
    /\ UNCHANGED <<cluster, cycle, images, built_images, missing_images, fam,
                   collector, readerPc, yielded, result, snapAtStart>>

\* lines 277-294 that store a family in the collector when the route list fails
CollectRoutesPartialPublish ==
    /\ pc = "routes"
    /\ \/ /\ fam' = [fam EXCEPT !.route = Some(RouteRows(The(@), cluster.routes))]
          /\ pc' = "store_image"
          /\ UNCHANGED collector
       \/ /\ pc' = "except"
          /\ collector' = [collector EXCEPT !.image = fam.image]
          /\ UNCHANGED fam
    /\ UNCHANGED <<cluster, imagestream, cycle, images, built_images, missing_images,
                   readerPc, yielded, result, snapAtStart>>

\* lines 277-294 of run(); v1_route.get() may raise; then run() returns
CollectRoutes ==
    /\ pc = "routes"
    /\ \/ /\ fam' = [fam EXCEPT !.route = Some(RouteRows(The(@), cluster.routes))]
          /\ pc' = "store_image"
       \/ /\ pc' = "except"
          /\ UNCHANGED fam
    /\ UNCHANGED <<cluster, imagestream, cycle, images, built_images, missing_images,
                   collector, readerPc, yielded, result, snapAtStart>>

\* line 51 assigns the returned tuple to three attributes, one store after the
\* other; another thread may run between two stores
StoreImage ==
    /\ pc = "store_image"
    /\ collector' = [collector EXCEPT !.image = fam.image]
    /\ pc' = "store_route"
    /\ UNCHANGED <<cluster, imagestream, cycle, images, built_images, missing_images,
                   fam, readerPc, yielded, result, snapAtStart>>

StoreRoute ==
    /\ pc = "store_route"
    /\ collector' = [collector EXCEPT !.route = fam.route]
    /\ pc' = "store_env"
    /\ UNCHANGED <<cluster, imagestream, cycle, images, built_images, missing_images,
                   fam, readerPc, yielded, result, snapAtStart>>

StoreEnv ==
    /\ pc = "store_env"
    /\ collector' = [collector EXCEPT !.env = fam.env]
    /\ pc' = "sleep"
    /\ result' = Some("returned")
    /\ UNCHANGED <<cluster, imagestream, cycle, images, built_images, missing_images,
                   fam, readerPc, yielded, snapAtStart>>

\* an except clause that leaves the loop
LogExceptionExit ==
    /\ pc = "except"
    /\ pc' = "exit"
    /\ result' = Some("raised")
    /\ UNCHANGED <<cluster, imagestream, cycle, images, built_images, missing_images,
                   fam, collector, readerPc, yielded, snapAtStart>>

\* lines 310-311: the exception is logged
LogException ==
    /\ pc = "except"
    /\ pc' = "sleep"
    /\ result' = Some("raised")
    /\ UNCHANGED <<cluster, imagestream, cycle, images, built_images, missing_images,
                   fam, collector, readerPc, yielded, snapAtStart>>

\* line 312, then the next iteration of line 307
Sleep ==
    /\ pc = "sleep"
    /\ pc' = "loop"
    /\ UNCHANGED <<cluster, imagestream, cycle, images, built_images, missing_images,
                   fam, collector, readerPc, yielded, result, snapAtStart>>

MainThread ==
    \/ StartUpdate
    \/ FetchImages
    \/ FetchBuiltImages
    \/ CorrelatePods
    \/ UpdateMissingImagestream
    \/ CollectRoutes
    \/ StoreImage
    \/ StoreRoute
    \/ StoreEnv
    \/ LogException
    \/ Sleep

----------------------------------------------------------------------------
(* A scrape: the generator collect() (lines 41-47), run by the HTTP server's thread *)

\* one "if self.x: yield self.x" of collect(); the test and the yield read the
\* attribute one after the other, and since an attribute once set is never None
\* again, the value yielded is the one a single read at the yield would give
CollectStep(attr, out) == IF attr # None THEN Append(out, The(attr)) ELSE out

ReaderStart ==
    /\ readerPc = "idle"
    /\ readerPc' = "image"
    /\ yielded' = <<>>
    /\ UNCHANGED <<cluster, imagestream, pc, cycle, images, built_images, missing_images,
                   fam, collector, result, snapAtStart>>

ReadImage ==
    /\ readerPc = "image"
    /\ yielded' = CollectStep(collector.image, yielded)
    /\ readerPc' = "route"
    /\ UNCHANGED <<cluster, imagestream, pc, cycle, images, built_images, missing_images,
                   fam, collector, result, snapAtStart>>

ReadRoute ==
    /\ readerPc = "route"
    /\ yielded' = CollectStep(collector.route, yielded)
    /\ readerPc' = "env"
    /\ UNCHANGED <<cluster, imagestream, pc, cycle, images, built_images, missing_images,
                   fam, collector, result, snapAtStart>>

ReadEnv ==
    /\ readerPc = "env"
    /\ yielded' = CollectStep(collector.env, yielded)
    /\ readerPc' = "done"
    /\ UNCHANGED <<cluster, imagestream, pc, cycle, images, built_images, missing_images,
                   fam, collector, result, snapAtStart>>

\* the generator is exhausted and the scrape answered
ReaderDone ==
    /\ readerPc = "done"
    /\ readerPc' = "idle"
    /\ yielded' = <<>>
    /\ UNCHANGED <<cluster, imagestream, pc, cycle, images, built_images, missing_images,
                   fam, collector, result, snapAtStart>>

Reader ==
    \/ ReaderStart
    \/ ReadImage
    \/ ReadRoute
    \/ ReadEnv
    \/ ReaderDone

----------------------------------------------------------------------------
(* The objects the API server may list *)

\* at most this many pods in the list the correlation is checked on
MaxPods == 2

PodNames == <<"pod-a", "pod-b", "pod-c", "pod-d">>

EnvVar(name, value, valueFrom) == [name |-> name, value |-> value, valueFrom |-> valueFrom]

ValueFrom(kind, key, name) == Some([kind |-> kind, key |-> key, name |-> name])

Container(name, env) == [name |-> name, env |-> env]

Status(name, imageID) == [name |-> name, imageID |-> imageID]

\* the i-th pod of a list
Pod(i, phase, deletionTimestamp, ownerReferences, containers, statuses) ==
    [namespace |-> <<"ns">>, name |-> <<PodNames[i]>>, phase |-> phase,
     deletionTimestamp |-> deletionTimestamp, ownerReferences |-> ownerReferences,
     containers |-> containers, containerStatuses |-> statuses]

Pullable(repo, digest) == <<DockerPullable>> \o Ref(repo, digest)

\* runtime image identifiers IMAGE_ID_RE does not match, none of them empty
UnparsedIds ==
    { <<"docker://", "sha256", ":", "x">>,
      <<DockerPullable, "registry/app", ":", "latest">>,
      <<DockerPullable, "@", "sha256", ":", "x">>,
      <<DockerPullable, "registry/app", "@">> }

\* the lists of container statuses of a pod, by the imageID of each container
StatusIdLists ==
    { <<>>, << <<>> >>,
      <<Pullable("registry/app", Digest(1))>>,
      <<Pullable("registry/app", Digest(2))>>,
      <<Pullable("registry/app", Digest(3))>>,
      <<Pullable("registry/app", Digest(1)), Pullable("registry/app", Digest(1))>>,
      <<Pullable("registry/app", Digest(3)), Pullable("registry/app", Digest(3))>>,
      <<Pullable("registry/app", Digest(1)), <<"docker://", "sha256", ":", "x">> >> }
    \cup { <<id>> : id \in UnparsedIds }

ContainerNames == <<"main", "sidecar">>

StatusesOf(ids) == [k \in 1..Len(ids) |-> Status(<<ContainerNames[k]>>, ids[k])]

SomeEnv ==
    << EnvVar(<<"MODE">>, Some(<<"prod">>), None),
       EnvVar(<<"TOKEN">>, None, ValueFrom("secretKeyRef", <<"token">>, <<"creds">>)),
       EnvVar(<<"NODE">>, None, ValueFrom("fieldRef", <<"spec.nodeName">>, <<>>)),
       EnvVar(<<"EMPTY">>, None, None) >>

\* the pod owners of the clusters below and what fetching each gives
WebOwners ==
    (<<"web-5d9">> :> OwnerAnswer(FALSE, <<OwnerRef("Deployment", <<"web">>)>>))

\* the shapes of a pod the correlation is checked on: phase, deletion mark, statuses
PodShapes ==
    { [phase |-> "Running", deletionTimestamp |-> None, ids |-> ids] : ids \in StatusIdLists }
    \cup { [phase |-> "Pending", deletionTimestamp |-> None,
            ids |-> <<Pullable("registry/app", Digest(3))>>],
           [phase |-> "Running", deletionTimestamp |-> Some(<<"2020-01-09T00:00:00Z">>),
            ids |-> <<Pullable("registry/app", Digest(1))>>] }

PodOfShape(i, shape) ==
    Pod(i, shape.phase, shape.deletionTimestamp,
        <<OwnerRef("ReplicaSet", <<"web-5d9">>)>>,
        <<Container(<<"main">>, SomeEnv)>>,
        StatusesOf(shape.ids))

PodLists ==
    UNION { { [i \in 1..n |-> PodOfShape(i, f[i])] : f \in [1..n -> PodShapes] }
            : n \in 0..MaxPods }

\* the catalogs and build lists the correlation is checked on; none holds Digest(3)
CorrelateCatalogs ==
    { <<>>,
      <<ImageObject(1, Some(<<"A", "B">>)), ImageObject(2, Some(<<"A">>))>> }

CorrelateBuilds ==
    { <<>>,
      <<BuildObject(Some(Ref("registry/base", UnknownDigest)), None, Some(Digest(1)))>>,
      <<BuildObject(Some(Ref("registry/base", UnknownDigest)), None, Some(Digest(3)))>> }

Route(name, tls, annotations) ==
    [namespace |-> <<"ns">>, name |-> name, host |-> name \o <<".", "example">>,
     service |-> name, tls |-> tls, annotations |-> annotations]

SomeRoutes ==
    << Route(<<"web">>,
             Some([termination |-> <<"edge">>, insecureEdgeTerminationPolicy |-> <<"Redirect">>]),
             << <<<<HaproxyPrefix, "ip_whitelist">>, <<"10.0.0.0/8">>>>,
                <<<<HaproxyPrefix, "timeout", "-", "http">>, <<"30s">>>>,
                <<<<"description">>, <<"front">>>> >>),
       Route(<<"api">>, None, <<>>) >>

\* the clusters the whole program is run against
MainClusters ==
    { Cluster(<<ImageObject(1, Some(<<"A", "B">>)), ImageObject(2, Some(<<"A">>))>>,
              <<>>,
              <<PodOfShape(1, [phase |-> "Running", deletionTimestamp |-> None,
                               ids |-> <<Pullable("registry/app", Digest(1))>>])>>,
              SomeRoutes, WebOwners),
      Cluster(<<ImageObject(1, Some(<<"A">>))>>,
              <<BuildObject(Some(Ref("registry/base", UnknownDigest)), None, Some(Digest(1)))>>,
              <<PodOfShape(1, [phase |-> "Running", deletionTimestamp |-> None,
                               ids |-> <<Pullable("registry/app", Digest(1)),
                                         Pullable("registry/app", Digest(3))>>])>>,
              <<>>, WebOwners) }

----------------------------------------------------------------------------
(* The program: the cycle loop and a scrape, interleaved *)

Init == \E c \in MainClusters : InitWith(c, None, "loop", 0, {})

Next == MainThread \/ Reader

Spec == Init /\ [][Next]_vars

\* the main thread is an operating-system thread: once at the except clause, at
\* the sleep or at the head of the loop it takes its next step (logging.exception
\* and time.sleep return).  Nothing is assumed of the calls inside update().
FairSpec == Spec /\ WF_vars(LogException) /\ WF_vars(Sleep) /\ WF_vars(StartUpdate)

----------------------------------------------------------------------------
(* The indices and the resolver, over every catalog and build list *)

NoOwners == <<>>

InitResolve ==
    \E cat \in Catalogs, builds \in BuildLists :
        InitWith(Cluster(cat, builds, <<>>, <<>>, NoOwners), None, "fetch_images", 1, {})

\* line 252, find_base_image(digest), for a digest the catalog holds, as run()
\* calls it; result keeps the argument and the value returned
CallFindBaseImage ==
    /\ pc = "correlate"
    /\ \E i \in 1..Len(cluster.images) :
          LET digest == cluster.images[i].name
              fb == FindBaseImage(images, built_images, {}, digest)
          IN  /\ ~fb.raised
              /\ result' = Some([digest |-> digest, ret |-> fb.ret])
              /\ missing_images' = fb.missing
    /\ pc' = "returned"
    /\ UNCHANGED <<cluster, imagestream, cycle, images, built_images, fam,
                   collector, readerPc, yielded, snapAtStart>>

NextResolve == FetchImages \/ FetchBuiltImages \/ CallFindBaseImage

SpecResolve == InitResolve /\ [][NextResolve]_vars

----------------------------------------------------------------------------
(* The owner resolver, over pods with every shape of owner references *)

OwnerNames == {<<"web-5d9">>, <<"db-1">>}

OwnerKinds == {"ReplicationController", "ReplicaSet", "DaemonSet", "StatefulSet", "Job"}

OwnerAnswers ==
    { OwnerAnswer(TRUE, <<>>),
      OwnerAnswer(FALSE, <<>>),
      OwnerAnswer(FALSE, <<OwnerRef("Deployment", <<"web">>)>>),
      OwnerAnswer(FALSE, <<OwnerRef("DeploymentConfig", <<"db">>), OwnerRef("Deployment", <<"web">>)>>),
      OwnerAnswer(FALSE, <<OwnerRef("ReplicaSet", <<"db-1">>)>>) }

OwnerRefLists ==
    { <<>> }
    \cup { <<OwnerRef(k, n)>> : k \in OwnerKinds, n \in OwnerNames }
    \cup { <<OwnerRef(k, <<"web-5d9">>), OwnerRef("ReplicaSet", <<"db-1">>)>> : k \in OwnerKinds }

InitOwner ==
    \E refs \in OwnerRefLists, owners \in [OwnerNames -> OwnerAnswers] :
        InitWith(Cluster(<<>>, <<>>,
                         <<Pod(1, "Running", None, refs, <<>>, <<>>)>>,
                         <<>>, owners),
                 None, "get_owner", 1, {})

\* line 199, owner = self.get_owner(pod)
CallGetOwner ==
    /\ pc = "get_owner"
    /\ result' = Some([owner |-> GetOwner(cluster.pods[1], cluster.owners)])
    /\ pc' = "returned"
    /\ UNCHANGED <<cluster, imagestream, cycle, images, built_images, missing_images,
                   fam, collector, readerPc, yielded, snapAtStart>>

NextOwner == CallGetOwner

SpecOwner == InitOwner /\ [][NextOwner]_vars

----------------------------------------------------------------------------
(* run() up to line 271, over lists of pods of every shape *)

InitCorrelate ==
    \E cat \in CorrelateCatalogs, builds \in CorrelateBuilds, pods \in PodLists :
        InitWith(Cluster(cat, builds, pods, <<>>, WebOwners), None, "fetch_images", 1, {})

NextCorrelate == FetchImages \/ FetchBuiltImages \/ CorrelatePods

SpecCorrelate == InitCorrelate /\ [][NextCorrelate]_vars

----------------------------------------------------------------------------
(* update_missing_imagestream run again and again with one missing set *)

MissingRefs ==
    { Ref("registry/app", Digest(1)), Ref("registry/app", Digest(3)),
      Ref("registry/base", UnknownDigest) }

ExistingRecords ==
    { None,
      Some([tags |-> <<>>, status |-> TRUE]),
      Some([tags |-> <<TagFor(Ref("registry/app", Digest(1)))>>, status |-> TRUE]),
      Some([tags |-> <<TagFor(Ref("registry/app", Digest(2)))>>, status |-> TRUE]),
      Some([tags |-> <<TagFor(Ref("registry/app", Digest(3))),
                       TagFor(Ref("registry/app", Digest(1)))>>, status |-> TRUE]) }

InitReconcile ==
    \E M \in SUBSET MissingRefs, stream \in ExistingRecords :
        InitWith(Cluster(<<>>, <<>>, <<>>, <<>>, NoOwners), stream, "reconcile", 1, M)

\* the rest of the cycle and the next cycle up to line 273, the cluster unchanged
\* and so missing_images the same; result keeps the tag list the first run wrote
NextCycleSameMissing ==
    /\ pc = "routes"
    /\ cycle < MaxCycles
    /\ pc' = "reconcile"
    /\ cycle' = cycle + 1
    /\ result' = IF cycle = 1 THEN Some(The(imagestream).tags) ELSE result
    /\ UNCHANGED <<cluster, imagestream, images, built_images, missing_images, fam,
                   collector, readerPc, yielded, snapAtStart>>

NextReconcile == UpdateMissingImagestream \/ NextCycleSameMissing

SpecReconcile == InitReconcile /\ [][NextReconcile]_vars

----------------------------------------------------------------------------
(* Properties *)

\* C1: every completed read of collect() yields families that were all produced
\* by one cycle, never a family of cycle N together with one of cycle N+1.
C1_ReadIsOneCycle ==
    readerPc = "done" =>
        \A i, j \in 1..Len(yielded) : yielded[i].cycle = yielded[j].cycle

\* the families a complete run() of cycle c returns for the cluster
CompleteFamilies(c) ==
    LET st == Correlate(IndexImages(EmptyDict, cluster.images),
                        IndexBuilds(EmptyDict, cluster.builds),
                        cluster.pods, cluster.owners, c)
    IN  [image |-> st.family,
         route |-> RouteRows(NewFamily("openshift_route", c), cluster.routes),
         env |-> st.env]

CycleFailed == pc = "except" \/ (pc \in {"sleep", "loop"} /\ result = Some("raised"))

\* C2: when a cycle fails at any step, the three published families are those
\* published before the cycle started, and every family ever published is a
\* complete one.
C2_FailedCycleKeepsSnapshot ==
    /\ CycleFailed => collector = snapAtStart
    /\ \A a \in {"image", "route", "env"} :
          collector[a] # None =>
              The(collector[a]) = CompleteFamilies(The(collector[a]).cycle)[a]

\* a second cycle has failed after building families of its own, with the first
\* cycle's snapshot published
C2_Witness ==
    /\ pc = "except"
    /\ cycle = 2
    /\ fam.image # None
    /\ The(fam.image).samples # <<>>
    /\ collector.image # None /\ collector.route # None /\ collector.env # None

\* C3: running update_missing_imagestream a second time with the same missing set
\* leaves the record with the tag list the first run wrote.
C3_ReconcileIdempotent ==
    (pc = "routes" /\ cycle >= 2) => The(imagestream).tags = The(result)

\* the position of the last image of the catalog whose layer sequence is l
LastWithLayers(l) ==
    CHOOSE i \in 1..Len(cluster.images) :
        /\ LayersOf(cluster.images[i]) = l
        /\ \A j \in (i + 1)..Len(cluster.images) : LayersOf(cluster.images[j]) # l

\* the catalog image called digest
CatalogImage(digest) ==
    cluster.images[CHOOSE i \in 1..Len(cluster.images) : cluster.images[i].name = digest]

\* the lengths of the non-empty proper prefixes of l that are the whole layer
\* sequence of a catalog image
CatalogedPrefixes(l) ==
    { n \in 1..(Len(l) - 1) :
        \E i \in 1..Len(cluster.images) : LayersOf(cluster.images[i]) = SubSeq(l, 1, n) }

\* C4: for a cataloged image X with no provenance entry, find_base_image(X)
\* returns the record indexed under the longest proper prefix of X's layers that is
\* the layer sequence of a cataloged image, and None when there is no such prefix.
C4_LongestProperPrefix ==
    (pc = "returned" /\ The(result).digest \notin DOMAIN built_images) =>
        LET l == LayersOf(CatalogImage(The(result).digest))
            P == CatalogedPrefixes(l)
            n == CHOOSE k \in P : \A m \in P : m <= k
        IN  IF P = {}
            THEN The(result).ret = None
            ELSE /\ The(result).ret = Some(images[TupleKey(SubSeq(l, 1, n))])
                 /\ The(result).ret = Some(RecordOf(cluster.images[LastWithLayers(SubSeq(l, 1, n))]))

\* [A,B,C] -> X, [A,B] -> Y, [A] -> Z, and find_base_image(X) has returned Y
C4_Witness ==
    /\ pc = "returned"
    /\ built_images = EmptyDict
    /\ cluster.images = <<ImageObject(1, Some(<<"A", "B", "C">>)),
                          ImageObject(2, Some(<<"A", "B">>)),
                          ImageObject(3, Some(<<"A">>))>>
    /\ The(result).digest = Digest(1)
    /\ The(result).ret = Some(RecordOf(ImageObject(2, Some(<<"A", "B">>))))

\* whether the catalog holds an image called digest
Cataloged(digest) == \E i \in 1..Len(cluster.images) : cluster.images[i].name = digest

\* C5: when the provenance index maps X to repo@Y and the catalog holds Y,
\* find_base_image(X) returns Y's record and adds nothing to the missing set.
C5_ProvenanceFirst ==
    (/\ pc = "returned"
     /\ The(result).digest \in DOMAIN built_images
     /\ Cataloged(Split(built_images[The(result).digest], "@")[2])) =>
        /\ The(result).ret =
              Some(RecordOf(CatalogImage(Split(built_images[The(result).digest], "@")[2])))
        /\ missing_images = {}

\* the provenance answer was returned where the layer prefixes lead to another image
C5_Witness ==
    /\ pc = "returned"
    /\ The(result).digest \in DOMAIN built_images
    /\ Cataloged(Split(built_images[The(result).digest], "@")[2])
    /\ PrefixProbe(images, LayersOf(CatalogImage(The(result).digest))) # None
    /\ PrefixProbe(images, LayersOf(CatalogImage(The(result).digest))) # The(result).ret

\* the container statuses of the pods the loop processes: <<pod, status>>
StatusesOfProcessedPods ==
    UNION { { <<cluster.pods[i], cluster.pods[i].containerStatuses[k]>> :
                k \in 1..Len(cluster.pods[i].containerStatuses) }
            : i \in { i \in 1..Len(cluster.pods) : PodProcessed(cluster.pods[i]) } }

\* the statuses with a non-empty imageID that IMAGE_ID_RE does not match
UnparsedStatuses ==
    { ps \in StatusesOfProcessedPods : ps[2].imageID # <<>> /\ ImageIdMatch(ps[2].imageID) = None }

ParsedStatuses ==
    { ps \in StatusesOfProcessedPods : ImageIdMatch(ps[2].imageID) # None }

\* the rows of the image family for one container of one pod
RowsFor(ps) ==
    SelectSeq(The(fam.image).samples,
              LAMBDA row : row.labels[2] = ps[1].name \o <<"/">> \o ps[2].name)

\* every member of the missing set comes from a status whose imageID parsed: it is
\* the image the status names, or the base the provenance index declares for it
MissingComesFromParsed ==
    \A m \in missing_images :
        \E ps \in ParsedStatuses :
            LET match == The(ImageIdMatch(ps[2].imageID))
            IN  \/ m = match.g1
                \/ match.g3 \in DOMAIN built_images /\ m = built_images[match.g3]

\* C6 as stated: a status whose imageID is non-empty and does not parse adds no
\* row to the image family and nothing to the missing set.
C6_UnparsedSkipped ==
    pc = "reconcile" =>
        /\ \A ps \in UnparsedStatuses : RowsFor(ps) = <<>>
        /\ MissingComesFromParsed

PlaceholderRow(ps, type) ==
    [labels |-> <<ps[1].namespace, ps[1].name \o <<"/">> \o ps[2].name, <<type>>, Unknown,
                  <<"web", "/">> \o ps[2].name, Unknown>>,
     value |-> 0]

\* C6 amended: such a status adds the two rows of a container, both with the
\* placeholder <unknown> for image and repo and the timestamp 0, and nothing to
\* the missing set.
C6_UnparsedPlaceholderRows ==
    pc = "reconcile" =>
        /\ \A ps \in UnparsedStatuses :
              RowsFor(ps) = <<PlaceholderRow(ps, "container_image"),
                              PlaceholderRow(ps, "parent_image")>>
        /\ MissingComesFromParsed

\* a processed pod has a status that does not parse beside one that put its image
\* in the missing set
C6_Witness ==
    /\ pc = "reconcile"
    /\ UnparsedStatuses # {}
    /\ missing_images # {}

\* the statuses of running containers whose image is the digest X
RunningWith(X) ==
    { ps \in ParsedStatuses : The(ImageIdMatch(ps[2].imageID)).g3 = X }

\* C7 as stated: a base reference the provenance index declares for X, its digest
\* not cataloged, is in the missing set (once) when a running container's image is X.
C7_DeclaredBaseMissing ==
    pc = "reconcile" =>
        \A X \in DOMAIN built_images :
            (~Cataloged(Split(built_images[X], "@")[2]) /\ RunningWith(X) # {}) =>
                Cardinality({ m \in missing_images : m = built_images[X] }) = 1

\* C7 amended: the same when X itself is cataloged.
C7_DeclaredBaseMissingOfCataloged ==
    pc = "reconcile" =>
        \A X \in DOMAIN built_images :
            (/\ ~Cataloged(Split(built_images[X], "@")[2])
             /\ RunningWith(X) # {}
             /\ Cataloged(X)) =>
                Cardinality({ m \in missing_images : m = built_images[X] }) = 1

\* two running containers have the cataloged image X, whose declared base is not
\* cataloged, and the missing set is that base alone
C7_Witness ==
    /\ pc = "reconcile"
    /\ \E X \in DOMAIN built_images :
          /\ Cataloged(X)
          /\ ~Cataloged(Split(built_images[X], "@")[2])
          /\ Cardinality(RunningWith(X)) >= 2
          /\ missing_images = {built_images[X]}

\* C8: get_owner gives None without owner reference; the first reference's name for
\* a kind other than ReplicationController and ReplicaSet; for those two kinds the
\* name of the owner's own first reference when the owner is fetched and has one,
\* and the first-level name otherwise.
C8_OwnerResolution ==
    pc = "returned" =>
        LET refs == cluster.pods[1].ownerReferences
            owner == The(result).owner
            fetched == cluster.owners[refs[1].name]
        IN  IF refs = <<>>
            THEN owner = None
            ELSE IF refs[1].kind \notin {"ReplicationController", "ReplicaSet"}
            THEN owner = Some(refs[1].name)
            ELSE IF ~fetched.raises /\ fetched.ownerReferences # <<>>
            THEN owner = Some(fetched.ownerReferences[1].name)
            ELSE owner = Some(refs[1].name)

\* a pod owned by a ReplicaSet that a Deployment owns resolved to the Deployment
C8_Witness ==
    /\ pc = "returned"
    /\ cluster.pods[1].ownerReferences # <<>>
    /\ cluster.pods[1].ownerReferences[1].kind = "ReplicaSet"
    /\ The(result).owner = Some(<<"web">>)

\* C9: the loop does not exit on an error; a cycle that raised is followed, after
\* the exception is logged and the interval has passed, by another call of update().
C9_FailedCycleIsFollowed ==
    \A n \in 1..(MaxCycles - 1) :
        (pc = "except" /\ cycle = n) ~> (pc = "fetch_images" /\ cycle = n + 1)

\* a cycle has started after one that raised
C9_Witness ==
    /\ pc = "fetch_images"
    /\ cycle = 2
    /\ result = Some("raised")

\* C10 as stated: after fetch_images every catalog image is under its digest and,
\* with layers, its record is under its layer sequence too.
C10_RecordUnderBothKeys ==
    pc = "fetch_built_images" =>
        \A i \in 1..Len(cluster.images) :
            LET image == cluster.images[i]
            IN  /\ StrKey(image.name) \in DOMAIN images
                /\ images[StrKey(image.name)] = RecordOf(image)
                /\ LayersOf(image) # <<>> =>
                      /\ TupleKey(LayersOf(image)) \in DOMAIN images
                      /\ images[TupleKey(LayersOf(image))] = RecordOf(image)

\* C10 amended: under a layer sequence is the record of the last catalog image
\* with that layer sequence, which is the image's own record when no later image
\* has the same layers.
C10_LastRecordUnderLayers ==
    pc = "fetch_built_images" =>
        \A i \in 1..Len(cluster.images) :
            LET image == cluster.images[i]
            IN  /\ StrKey(image.name) \in DOMAIN images
                /\ images[StrKey(image.name)] = RecordOf(image)
                /\ LayersOf(image) # <<>> =>
                      /\ TupleKey(LayersOf(image)) \in DOMAIN images
                      /\ images[TupleKey(LayersOf(image))] =
                            RecordOf(cluster.images[LastWithLayers(LayersOf(image))])

\* fetch_images has indexed a catalog in which two images have the same layers
C10_Witness ==
    /\ pc = "fetch_built_images"
    /\ \E i, j \in 1..Len(cluster.images) :
          /\ i < j
          /\ LayersOf(cluster.images[i]) # <<>>
          /\ LayersOf(cluster.images[i]) = LayersOf(cluster.images[j])

====
